---------------------------- MODULE Spec2Model ----------------------------
(***************************************************************************)
(* VDataFrame (secretflow/data/vertical/dataframe.py): a dataframe whose   *)
(* columns are split over parties.  The model keeps one VDataFrame, its    *)
(* ordered Party -> Partition mapping and its aligned flag, and applies    *)
(* the methods of the class to it one call at a time.  Every call records  *)
(* what it returned or raised, which partitions' operations it invoked,    *)
(* what it passed to reveal and what it exported.                          *)
(*                                                                         *)
(* A Partition's table is  [idx, cols] :  idx  the set of row labels and   *)
(* cols the ordered columns, each  [name, dtype, data]  with  data  a      *)
(* function from the row labels to cells.  The cell NA stands for a        *)
(* missing value (NaN).                                                    *)
(***************************************************************************)
EXTENDS Integers, Sequences, FiniteSets, TLC

\* ----------------------------------------------------------------- bounds
\* Number of rows of every initial partition.
NRows == 2
\* Longest column request (list of names) a call is given.
MaxReq == 2
\* Number of calls made on the VDataFrame in one behaviour.
MaxOps == 2
\* Largest cell value of an initial table.
MaxCell == 2

\* ------------------------------------------------------------ input domains
NA == -1
Rows == 1..NRows
ColNames == {"x", "y", "z", "w"}
Alice == "alice"
Bob == "bob"
Carol == "carol"
Parties == {Alice, Bob, Carol}

\* ------------------------------------------------------------ sequences
Range(s) == {s[i] : i \in 1..Len(s)}

SeqsUpTo(S, n) == UNION {[1..k -> S] : k \in 0..n}

RECURSIVE Flatten(_)
Flatten(ss) == IF ss = <<>> THEN <<>> ELSE Head(ss) \o Flatten(Tail(ss))

RECURSIVE SumSeq(_)
SumSeq(s) == IF s = <<>> THEN 0 ELSE Head(s) + SumSeq(Tail(s))

\* ------------------------------------------------- the Partition's table
\* The names a partition declares: the keys of part.dtypes, part.columns.
PartColumns(tab) == [i \in 1..Len(tab.cols) |-> tab.cols[i].name]

DtypeKeys(tab) == Range(PartColumns(tab))

\* The first column of tab called key.
ColNamed(tab, key) ==
    tab.cols[CHOOSE i \in 1..Len(tab.cols) :
                /\ tab.cols[i].name = key
                /\ \A j \in 1..(i - 1) : tab.cols[j].name # key]

\* part[keys]: the columns keys name, in the order of keys.
PartGetItem(tab, keys) ==
    [idx |-> tab.idx, cols |-> [i \in 1..Len(keys) |-> ColNamed(tab, keys[i])]]

\* df[key] = col: replaces the column called key where it stands, or appends.
SetCol(tab, key, col) ==
    IF key \in DtypeKeys(tab)
    THEN [tab EXCEPT !.cols = [i \in 1..Len(tab.cols) |->
                                 IF tab.cols[i].name = key THEN col ELSE tab.cols[i]]]
    ELSE [tab EXCEPT !.cols = Append(@, col)]

\* Assigned values are aligned on the row labels of the target.
Reindex(data, from, to) == [r \in to |-> IF r \in from THEN data[r] ELSE NA]

RECURSIVE SetCols(_, _, _, _)
SetCols(tab, keys, valtab, k) ==
    IF k > Len(keys) THEN tab
    ELSE SetCols(SetCol(tab, keys[k],
                        [name |-> keys[k], dtype |-> valtab.cols[k].dtype,
                         data |-> Reindex(valtab.cols[k].data, valtab.idx, tab.idx)]),
                 keys, valtab, k + 1)

\* part[keys] = other partition: column k of the value goes under keys[k].
PartSetItem(tab, keys, valtab) ==
    IF Len(keys) # Len(valtab.cols)
    THEN [err |-> "ValueError", tab |-> tab]
    ELSE [err |-> "", tab |-> SetCols(tab, keys, valtab, 1)]

RECURSIVE SetScalars(_, _, _, _)
SetScalars(tab, keys, scalar, k) ==
    IF k > Len(keys) THEN tab
    ELSE SetScalars(SetCol(tab, keys[k],
                           [name |-> keys[k], dtype |-> "float",
                            data |-> [r \in tab.idx |-> scalar]]),
                    keys, scalar, k + 1)

\* part[keys] = scalar: the value is broadcast over every row of every key.
PartSetScalar(tab, keys, scalar) ==
    [err |-> "", tab |-> SetScalars(tab, keys, scalar, 1)]

\* part.drop(index=index, columns=columns, errors='raise').
PartDrop(tab, columns, index) ==
    IF columns = <<>> /\ index = {}
    THEN [err |-> "ValueError", tab |-> tab]
    ELSE IF ~(Range(columns) \subseteq DtypeKeys(tab)) \/ ~(index \subseteq tab.idx)
    THEN [err |-> "KeyError", tab |-> tab]
    ELSE [err |-> "",
          tab |-> [idx |-> tab.idx \ index,
                   cols |-> LET kept == SelectSeq(tab.cols,
                                          LAMBDA c : c.name \notin Range(columns))
                            IN  [i \in 1..Len(kept) |->
                                   [kept[i] EXCEPT !.data =
                                      [r \in tab.idx \ index |-> kept[i].data[r]]]]]]

\* part.fillna(value): every missing cell becomes value.
PartFillna(tab, value) ==
    [err |-> "",
     tab |-> [tab EXCEPT !.cols = [i \in 1..Len(tab.cols) |->
                [tab.cols[i] EXCEPT !.data =
                   [r \in tab.idx |-> IF tab.cols[i].data[r] = NA THEN value
                                      ELSE tab.cols[i].data[r]]]]]]

\* part.astype({col: to for col in cols}): the named columns take dtype to.
PartAstype(tab, cols, to) ==
    [err |-> "",
     tab |-> [tab EXCEPT !.cols = [i \in 1..Len(tab.cols) |->
                IF tab.cols[i].name \in cols
                THEN [tab.cols[i] EXCEPT !.dtype = to] ELSE tab.cols[i]]]]

\* part.select_dtypes(include): the columns of that dtype.
PartSelectDtypes(tab, include) ==
    [tab EXCEPT !.cols = SelectSeq(tab.cols, LAMBDA c : c.dtype = include)]

MapCells(tab, F(_)) ==
    [tab EXCEPT !.cols = [i \in 1..Len(tab.cols) |->
        [tab.cols[i] EXCEPT !.data = [r \in tab.idx |-> F(tab.cols[i].data[r])]]]]

RECURSIVE Power(_, _)
Power(c, e) == IF e = 0 THEN 1 ELSE c * Power(c, e - 1)

NoTab == [idx |-> {}, cols |-> <<>>]

\* part.subtract(other frame): rows and columns are the union of both
\* sides; a cell is a difference where both sides have it, missing elsewhere.
SubtractFrame(tab, other) ==
    LET idx == tab.idx \union other.idx
        extra == SelectSeq(other.cols, LAMBDA c : c.name \notin DtypeKeys(tab))
        Diff(c, r) ==
            IF /\ c.name \in DtypeKeys(other)
               /\ r \in tab.idx /\ r \in other.idx
               /\ c.data[r] # NA /\ ColNamed(other, c.name).data[r] # NA
            THEN c.data[r] - ColNamed(other, c.name).data[r]
            ELSE NA
    IN  [idx |-> idx,
         cols |-> [i \in 1..Len(tab.cols) |->
                     [tab.cols[i] EXCEPT !.data = [r \in idx |-> Diff(tab.cols[i], r)]]]
                  \o [i \in 1..Len(extra) |->
                        [extra[i] EXCEPT !.data = [r \in idx |-> NA]]]]

\* getattr(part, fn)(*args, **kwargs) for the methods part-apply dispatches.
\* args is [value, to, other, index].
PartCall(tab, fn, args) ==
    CASE fn = "copy" -> [err |-> "", tab |-> tab]
      [] fn = "round" -> [err |-> "", tab |-> tab]
      [] fn = "replace" ->
            [err |-> "",
             tab |-> MapCells(tab, LAMBDA c : IF c = args.value THEN args.to ELSE c)]
      [] fn = "pow" ->
            [err |-> "",
             tab |-> MapCells(tab, LAMBDA c : IF c = NA THEN NA ELSE Power(c, args.value))]
      [] fn = "subtract" ->
            IF args.other = NoTab
            THEN [err |-> "",
                  tab |-> MapCells(tab, LAMBDA c : IF c = NA THEN NA ELSE c - args.value)]
            ELSE [err |-> "", tab |-> SubtractFrame(tab, args.other)]
      [] fn = "isna" ->
            [err |-> "",
             tab |-> LET m == MapCells(tab, LAMBDA c : IF c = NA THEN 1 ELSE 0)
                     IN  [m EXCEPT !.cols = [i \in 1..Len(m.cols) |->
                                               [m.cols[i] EXCEPT !.dtype = "bool"]]]]
      [] fn = "fillna" -> PartFillna(tab, args.value)
      [] fn = "drop" -> PartDrop(tab, <<>>, args.index)

\* ---------------------------------------------------- column reductions
RECURSIVE SumOver(_, _)
SumOver(S, data) ==
    IF S = {} THEN 0
    ELSE LET r == CHOOSE x \in S : TRUE IN data[r] + SumOver(S \ {r}, data)

Present(col) == {r \in DOMAIN col.data : col.data[r] # NA}

\* The reduction fn of one column over axis 0; missing cells are skipped.
\* mean is the pair <<sum, count>>; the higher moments, mode and quantile
\* are left uninterpreted as <<fn, cells>>.
Reduce(fn, col) ==
    CASE fn = "sum" -> SumOver(Present(col), col.data)
      [] fn = "count" -> Cardinality(Present(col))
      [] fn = "min" ->
            IF Present(col) = {} THEN NA
            ELSE CHOOSE m \in {col.data[r] : r \in Present(col)} :
                    \A r \in Present(col) : m <= col.data[r]
      [] fn = "max" ->
            IF Present(col) = {} THEN NA
            ELSE CHOOSE m \in {col.data[r] : r \in Present(col)} :
                    \A r \in Present(col) : m >= col.data[r]
      [] fn = "mean" -> <<SumOver(Present(col), col.data), Cardinality(Present(col))>>
      [] OTHER -> <<fn, col.data>>

AggFns == {"sum", "min", "max", "mean", "var", "std", "sem", "skew",
           "kurtosis", "mode", "quantile", "count"}

\* Reductions defined on numbers only.
NumericFns == {"mean", "var", "std", "sem", "skew", "kurtosis", "quantile"}

\* getattr(part, fn)(numeric_only=...).data: one entry per column reduced,
\* in the partition's column order; object columns are left out when
\* numeric_only is set and make a numeric reduction fail when it is not.
PartReduce(tab, fn, numeric_only) ==
    LET kept == IF numeric_only
                THEN SelectSeq(tab.cols, LAMBDA c : c.dtype # "object")
                ELSE tab.cols
    IN  IF fn \in NumericFns /\ \E i \in 1..Len(kept) : kept[i].dtype = "object"
        THEN [err |-> "TypeError", res |-> <<>>]
        ELSE [err |-> "",
              res |-> [i \in 1..Len(kept) |->
                         [name |-> kept[i].name, value |-> Reduce(fn, kept[i])]]]

\* reveal(batch): the plaintext of every opaque value, in the batch's order.
Reveal(batch) == batch

\* ------------------------------------------------- the VDataFrame's values
\* A partition mapping is a sequence of [pyu, tab] in dict iteration order.
Pyus(parts) == [i \in 1..Len(parts) |-> parts[i].pyu]

HasPyu(parts, pyu) == \E i \in 1..Len(parts) : parts[i].pyu = pyu

PosOf(parts, pyu) == CHOOSE i \in 1..Len(parts) : parts[i].pyu = pyu

PartOf(parts, pyu) == parts[PosOf(parts, pyu)].tab

NoFrame == [parts |-> <<>>, aligned |-> TRUE]

\* What a call did: the receiver's partitions after it, what it returned
\* (kind: "none", "frame", "self", "series", "dict", "list") or raised
\* (kind "raise" and err), and its calls on the collaborators.
Outcome(parts) ==
    [self |-> parts, kind |-> "none", err |-> "", frame |-> NoFrame,
     series |-> <<>>, invoked |-> <<>>, revealed |-> <<>>, exported |-> <<>>]

Raise(parts, err) == [Outcome(parts) EXCEPT !.kind = "raise", !.err = err]

\* A partition of a returned frame: alias says it is the receiver's own
\* Partition object (the dict was copied, the object was not).
Fresh(pyu, tab) == [pyu |-> pyu, tab |-> tab, alias |-> FALSE]

Shared(pyu, tab) == [pyu |-> pyu, tab |-> tab, alias |-> TRUE]

Frame(parts, aligned) == [parts |-> parts, aligned |-> aligned]

Returns(parts, frame) == [Outcome(parts) EXCEPT !.kind = "frame", !.frame = frame]

\* -------------------------------------------------------------- _col_index
\* A column request is [scalar, names]: a single name (scalar) or a list.
ListedCol(col) == IF col.scalar THEN <<col.names[1]>> ELSE col.names

\* The first partition, in iteration order from i, that declares key; 0 if none.
RECURSIVE FindOwner(_, _, _)
FindOwner(parts, key, i) ==
    IF i > Len(parts) THEN 0
    ELSE IF key \in DtypeKeys(parts[i].tab) THEN i
    ELSE FindOwner(parts, key, i + 1)

\* AppendCol putting a party's later names in front of its earlier ones.
AppendColFront(pyu_col, pyu, key) ==
    IF \E j \in 1..Len(pyu_col) : pyu_col[j].pyu = pyu
    THEN [j \in 1..Len(pyu_col) |->
            IF pyu_col[j].pyu = pyu
            THEN [pyu_col[j] EXCEPT !.cols = <<key>> \o @]
            ELSE pyu_col[j]]
    ELSE Append(pyu_col, [pyu |-> pyu, cols |-> <<key>>])

\* pyu_col[pyu].append(key), with a new entry for a party first seen.
AppendCol(pyu_col, pyu, key) ==
    IF \E j \in 1..Len(pyu_col) : pyu_col[j].pyu = pyu
    THEN [j \in 1..Len(pyu_col) |->
            IF pyu_col[j].pyu = pyu
            THEN [pyu_col[j] EXCEPT !.cols = Append(@, key)]
            ELSE pyu_col[j]]
    ELSE Append(pyu_col, [pyu |-> pyu, cols |-> <<key>>])

RECURSIVE ColIndexLoop(_, _, _, _)
ColIndexLoop(parts, listed_col, k, pyu_col) ==
    IF k > Len(listed_col)
    THEN [err |-> "", missing |-> "", idx |-> pyu_col]
    ELSE LET found == FindOwner(parts, listed_col[k], 1)
         IN  IF found = 0
             THEN [err |-> "NotFoundError", missing |-> listed_col[k], idx |-> <<>>]
             ELSE ColIndexLoop(parts, listed_col, k + 1,
                               AppendCol(pyu_col, parts[found].pyu, listed_col[k]))

ColIndex(parts, col) ==
    IF ListedCol(col) = <<>>
    THEN [err |-> "AssertionError", missing |-> "", idx |-> <<>>]
    ELSE ColIndexLoop(parts, ListedCol(col), 1, <<>>)

\* ------------------------------------------------------------- __getitem__
\* GetItem handing out each owner's whole partition.
GetItemWholePartition(parts, item) ==
    LET item_index == ColIndex(parts, item)
    IN  IF item_index.err # "" THEN Raise(parts, item_index.err)
        ELSE Returns(parts,
                     Frame([k \in 1..Len(item_index.idx) |->
                              Fresh(item_index.idx[k].pyu,
                                    PartOf(parts, item_index.idx[k].pyu))],
                           TRUE))

GetItem(parts, item) ==
    LET item_index == ColIndex(parts, item)
    IN  IF item_index.err # "" THEN Raise(parts, item_index.err)
        ELSE Returns(parts,
                     Frame([k \in 1..Len(item_index.idx) |->
                              Fresh(item_index.idx[k].pyu,
                                    PartGetItem(PartOf(parts, item_index.idx[k].pyu),
                                                item_index.idx[k].cols))],
                           TRUE))

\* ------------------------------------------------------------- __setitem__
\* The assigned value is [type, pyu, tab, parts, scalar]: a Partition of
\* party pyu holding tab, a VDataFrame of partitions parts, or a scalar.
RECURSIVE AssignResolved(_, _, _, _)
AssignResolved(parts, key_index, k, value) ==
    IF k > Len(key_index) THEN Outcome(parts)
    ELSE LET pyu == key_index[k].pyu
             i == PosOf(parts, pyu)
         IN  IF value.type = "frame" /\ ~HasPyu(value.parts, pyu)
             THEN Raise(parts, "KeyError")
             ELSE LET r == IF value.type = "frame"
                           THEN PartSetItem(parts[i].tab, key_index[k].cols,
                                            PartOf(value.parts, pyu))
                           ELSE PartSetScalar(parts[i].tab, key_index[k].cols,
                                              value.scalar)
                  IN  IF r.err # "" THEN Raise(parts, r.err)
                      ELSE AssignResolved([parts EXCEPT ![i].tab = r.tab],
                                          key_index, k + 1, value)

\* Insert as a new key if not seen.
RECURSIVE InsertNew(_, _, _)
InsertNew(parts, vparts, k) ==
    IF k > Len(vparts) THEN Outcome(parts)
    ELSE LET i == PosOf(parts, vparts[k].pyu)
             r == PartSetItem(parts[i].tab, PartColumns(vparts[k].tab), vparts[k].tab)
         IN  IF r.err # "" THEN Raise(parts, r.err)
             ELSE InsertNew([parts EXCEPT ![i].tab = r.tab], vparts, k + 1)

\* SetItemPartition assigning into the first partition, whatever the
\* value's party.
SetItemFirstPartition(parts, key, value) ==
    IF ~HasPyu(parts, value.pyu) THEN Raise(parts, "AssertionError")
    ELSE LET r == PartSetItem(parts[1].tab, key.names, value.tab)
         IN  IF r.err # "" THEN Raise(parts, r.err)
             ELSE Outcome([parts EXCEPT ![1].tab = r.tab])

\* value is a Partition: it goes into the partition of its own party.
SetItemPartition(parts, key, value) ==
    IF ~HasPyu(parts, value.pyu) THEN Raise(parts, "AssertionError")
    ELSE LET i == PosOf(parts, value.pyu)
             r == PartSetItem(parts[i].tab, key.names, value.tab)
         IN  IF r.err # "" THEN Raise(parts, r.err)
             ELSE Outcome([parts EXCEPT ![i].tab = r.tab])

\* SetItemFrame without the fallback: a key that does not resolve fails.
SetItemFrameNoFallback(parts, key, value) ==
    IF \E j \in 1..Len(value.parts) : ~HasPyu(parts, value.parts[j].pyu)
    THEN Raise(parts, "AssertionError")
    ELSE LET key_index == ColIndex(parts, key)
         IN  IF key_index.err # "" THEN Raise(parts, key_index.err)
             ELSE AssignResolved(parts, key_index.idx, 1, value)

\* value is a VDataFrame.
SetItemFrame(parts, key, value) ==
    IF \E j \in 1..Len(value.parts) : ~HasPyu(parts, value.parts[j].pyu)
    THEN Raise(parts, "AssertionError")
    ELSE LET key_index == ColIndex(parts, key)
         IN  IF key_index.err = "NotFoundError"
             THEN InsertNew(parts, value.parts, 1)
             ELSE IF key_index.err # "" THEN Raise(parts, key_index.err)
             ELSE AssignResolved(parts, key_index.idx, 1, value)

\* value is anything else: it is broadcast into every owner's table.
SetItemScalar(parts, key, value) ==
    LET key_index == ColIndex(parts, key)
    IN  IF key_index.err # "" THEN Raise(parts, key_index.err)
        ELSE AssignResolved(parts, key_index.idx, 1, value)

SetItem(parts, key, value) ==
    IF value.type = "partition" THEN SetItemPartition(parts, key, value)
    ELSE IF value.type = "frame" THEN SetItemFrame(parts, key, value)
    ELSE SetItemScalar(parts, key, value)

\* ------------------------------------------------- __concat_reveal_apply
\* The reductions run partition by partition; one reveal takes them all.
RECURSIVE ReduceParts(_, _, _, _, _)
ReduceParts(parts, fn, numeric_only, k, acc) ==
    IF k > Len(parts) THEN [err |-> "", batch |-> acc, upto |-> Len(parts)]
    ELSE LET r == PartReduce(parts[k].tab, fn, numeric_only)
         IN  IF r.err # "" THEN [err |-> r.err, batch |-> acc, upto |-> k]
             ELSE ReduceParts(parts, fn, numeric_only, k + 1, Append(acc, r.res))

Invocations(parts, upto, fn, args) ==
    [i \in 1..upto |-> [pyu |-> parts[i].pyu, fn |-> fn, args |-> args]]

\* ConcatRevealApply concatenating the revealed results last partition first.
ConcatRevealApplyReversed(parts, fn, numeric_only) ==
    LET p == ReduceParts(parts, fn, numeric_only, 1, <<>>)
        inv == Invocations(parts, p.upto, fn, numeric_only)
        n == Len(p.batch)
    IN  IF p.err # ""
        THEN [Raise(parts, p.err) EXCEPT !.invoked = inv]
        ELSE [Outcome(parts) EXCEPT !.kind = "series",
                                    !.series = Flatten([i \in 1..n |->
                                                          Reveal(p.batch)[n + 1 - i]]),
                                    !.invoked = inv,
                                    !.revealed = <<p.batch>>]

\* ConcatRevealApply revealing each partial result as soon as its partition
\* has produced it.
ConcatRevealEach(parts, fn, numeric_only) ==
    LET p == ReduceParts(parts, fn, numeric_only, 1, <<>>)
        inv == Invocations(parts, p.upto, fn, numeric_only)
        each == [i \in 1..Len(p.batch) |-> <<p.batch[i]>>]
    IN  IF p.err # ""
        THEN [Raise(parts, p.err) EXCEPT !.invoked = inv, !.revealed = each]
        ELSE [Outcome(parts) EXCEPT !.kind = "series",
                                    !.series = Flatten(Reveal(p.batch)),
                                    !.invoked = inv,
                                    !.revealed = each]

ConcatRevealApply(parts, fn, numeric_only) ==
    LET p == ReduceParts(parts, fn, numeric_only, 1, <<>>)
        inv == Invocations(parts, p.upto, fn, numeric_only)
    IN  IF p.err # ""
        THEN [Raise(parts, p.err) EXCEPT !.invoked = inv]
        ELSE [Outcome(parts) EXCEPT !.kind = "series",
                                    !.series = Flatten(Reveal(p.batch)),
                                    !.invoked = inv,
                                    !.revealed = <<p.batch>>]

\* ------------------------------------------------------------ __part_apply
\* The raw result as it came, with whatever columns it has.
KeepRaw(rawtab, tab) == rawtab

\* raw[part.columns]: the raw result cut down to the partition's own columns.
RestrictToOwn(rawtab, tab) == PartGetItem(rawtab, PartColumns(tab))

RECURSIVE PartApplyLoop(_, _, _, _, _, _)
PartApplyLoop(parts, aligned, fn, args, k, acc) ==
    IF k > Len(parts)
    THEN [Returns(parts, Frame(acc, aligned))
            EXCEPT !.invoked = Invocations(parts, Len(parts), fn, args)]
    ELSE LET raw == PartCall(parts[k].tab, fn, args)
         IN  IF raw.err # ""
             THEN [Raise(parts, raw.err)
                     EXCEPT !.invoked = Invocations(parts, k, fn, args)]
             ELSE IF ~(DtypeKeys(parts[k].tab) \subseteq DtypeKeys(raw.tab))
             THEN [Raise(parts, "KeyError")
                     EXCEPT !.invoked = Invocations(parts, k, fn, args)]
             ELSE PartApplyLoop(parts, aligned, fn, args, k + 1,
                                Append(acc, Fresh(parts[k].pyu,
                                                  RestrictToOwn(raw.tab, parts[k].tab))))

PartApply(parts, aligned, fn, args) == PartApplyLoop(parts, aligned, fn, args, 1, <<>>)

NoArgs == [value |-> 0, to |-> 0, other |-> NoTab, index |-> {}]

\* ------------------------------------------------------------------- drop
\* targets is a sequence of [pyu, cols]; every target's partition drops its
\* cols and the rows of index, in place.
RECURSIVE DropInplace(_, _, _, _)
DropInplace(parts, targets, index, k) ==
    IF k > Len(targets) THEN Outcome(parts)
    ELSE LET i == PosOf(parts, targets[k].pyu)
             r == PartDrop(parts[i].tab, targets[k].cols, index)
         IN  IF r.err # "" THEN Raise(parts, r.err)
             ELSE DropInplace([parts EXCEPT ![i].tab = r.tab], targets, index, k + 1)

RECURSIVE DropCopy(_, _, _, _, _, _)
DropCopy(parts, aligned, new_parts, col_index, index, k) ==
    IF k > Len(col_index) THEN Returns(parts, Frame(new_parts, aligned))
    ELSE LET i == PosOf(parts, col_index[k].pyu)
             r == PartDrop(parts[i].tab, col_index[k].cols, index)
         IN  IF r.err # "" THEN Raise(parts, r.err)
             ELSE DropCopy(parts, aligned,
                           [new_parts EXCEPT ![i] = Fresh(parts[i].pyu, r.tab)],
                           col_index, index, k + 1)

\* Drop resolving and dropping one name after the other.
RECURSIVE DropEachKey(_, _, _)
DropEachKey(parts, listed, k) ==
    IF k > Len(listed) THEN Outcome(parts)
    ELSE LET ci == ColIndex(parts, [scalar |-> TRUE, names |-> <<listed[k]>>])
         IN  IF ci.err # "" THEN Raise(parts, ci.err)
             ELSE LET r == DropInplace(parts, ci.idx, {}, 1)
                  IN  IF r.kind = "raise" THEN r
                      ELSE DropEachKey(r.self, listed, k + 1)

DropKeyByKey(parts, aligned, columns, index, inplace) ==
    DropEachKey(parts, ListedCol(columns), 1)

Drop(parts, aligned, columns, index, inplace) ==
    IF ListedCol(columns) # <<>>
    THEN LET col_index == ColIndex(parts, columns)
         IN  IF col_index.err # "" THEN Raise(parts, col_index.err)
             ELSE IF inplace THEN DropInplace(parts, col_index.idx, index, 1)
             ELSE DropCopy(parts, aligned,
                           [i \in 1..Len(parts) |-> Shared(parts[i].pyu, parts[i].tab)],
                           col_index.idx, index, 1)
    ELSE IF inplace
         THEN DropInplace(parts,
                          [i \in 1..Len(parts) |-> [pyu |-> parts[i].pyu, cols |-> <<>>]],
                          index, 1)
         ELSE PartApply(parts, aligned, "drop", [NoArgs EXCEPT !.index = index])

\* ----------------------------------------------------------------- fillna
RECURSIVE FillnaInplace(_, _, _)
FillnaInplace(parts, value, k) ==
    IF k > Len(parts) THEN [Outcome(parts) EXCEPT !.kind = "self"]
    ELSE LET r == PartFillna(parts[k].tab, value)
         IN  IF r.err # "" THEN Raise(parts, r.err)
             ELSE FillnaInplace([parts EXCEPT ![k].tab = r.tab], value, k + 1)

Fillna(parts, aligned, value, inplace) ==
    IF inplace THEN FillnaInplace(parts, value, 1)
    ELSE PartApply(parts, aligned, "fillna", [NoArgs EXCEPT !.value = value])

\* ----------------------------------------------------------------- astype
\* dtype is [isdict, keys, to]: a dict giving every name of keys the dtype
\* to, or the single dtype to for all columns.
AsType(parts, aligned, dtype) ==
    IF dtype.isdict
    THEN LET item_index == ColIndex(parts, [scalar |-> FALSE, names |-> dtype.keys])
             Cols(pyu) == (CHOOSE e \in Range(item_index.idx) : e.pyu = pyu).cols
         IN  IF item_index.err # "" THEN Raise(parts, item_index.err)
             ELSE Returns(parts,
                    Frame([i \in 1..Len(parts) |->
                             IF ~HasPyu(item_index.idx, parts[i].pyu)
                             THEN Fresh(parts[i].pyu, parts[i].tab)
                             ELSE Fresh(parts[i].pyu,
                                        PartAstype(parts[i].tab,
                                                   Range(Cols(parts[i].pyu)),
                                                   dtype.to).tab)],
                          aligned))
    ELSE Returns(parts,
                 Frame([i \in 1..Len(parts) |->
                          Fresh(parts[i].pyu,
                                PartAstype(parts[i].tab, DtypeKeys(parts[i].tab),
                                           dtype.to).tab)],
                       aligned))

SelectDtypes(parts, aligned, include) ==
    Returns(parts,
            Frame([i \in 1..Len(parts) |->
                     Fresh(parts[i].pyu, PartSelectDtypes(parts[i].tab, include))],
                  aligned))

\* ---------------------------------------------------------- introspection
Value(parts, kind, val) == [Outcome(parts) EXCEPT !.kind = kind, !.series = val]

Columns(parts) ==
    IF parts = <<>> THEN Raise(parts, "AssertionError")
    ELSE Value(parts, "list",
               Flatten([i \in 1..Len(parts) |-> PartColumns(parts[i].tab)]))

PartShape(tab) == <<Cardinality(tab.idx), Len(tab.cols)>>

\* Shape passing the partitions' shapes through reveal.
ShapeRevealed(parts) ==
    LET shapes == [i \in 1..Len(parts) |-> PartShape(parts[i].tab)]
    IN  [Value(parts, "tuple",
               <<Reveal(shapes)[1][1],
                 SumSeq([i \in 1..Len(parts) |-> Reveal(shapes)[i][2]])>>)
           EXCEPT !.revealed = <<shapes>>]

Shape(parts) ==
    IF parts = <<>> THEN Raise(parts, "AssertionError")
    ELSE Value(parts, "tuple",
               <<PartShape(parts[1].tab)[1],
                 SumSeq([i \in 1..Len(parts) |-> PartShape(parts[i].tab)[2]])>>)

\* my_dtypes.update(...): a name seen again keeps its place and takes the
\* later dtype.
RECURSIVE DictUpdate(_, _)
DictUpdate(d, items) ==
    IF items = <<>> THEN d
    ELSE LET it == Head(items)
         IN  DictUpdate(IF \E j \in 1..Len(d) : d[j].name = it.name
                        THEN [j \in 1..Len(d) |->
                                IF d[j].name = it.name THEN it ELSE d[j]]
                        ELSE Append(d, it),
                        Tail(items))

Dtypes(parts) ==
    Value(parts, "dict",
          DictUpdate(<<>>,
                     Flatten([i \in 1..Len(parts) |->
                                [c \in 1..Len(parts[i].tab.cols) |->
                                   [name |-> parts[i].tab.cols[c].name,
                                    dtype |-> parts[i].tab.cols[c].dtype]]])))

LenOf(parts) ==
    IF parts = <<>> THEN Raise(parts, "AssertionError")
    ELSE Value(parts, "int",
               CHOOSE m \in {Cardinality(parts[i].tab.idx) : i \in 1..Len(parts)} :
                  \A i \in 1..Len(parts) : m >= Cardinality(parts[i].tab.idx))

\* @reveal: what the method returns goes through reveal.
PartitionShape(parts) ==
    LET shapes == [i \in 1..Len(parts) |->
                     [pyu |-> parts[i].pyu, shape |-> PartShape(parts[i].tab)]]
    IN  [Value(parts, "dict", Reveal(shapes)) EXCEPT !.revealed = <<shapes>>]

PartitionColumns(parts) ==
    IF Len(parts) = 0 THEN Raise(parts, "AssertionError")
    ELSE Value(parts, "dict",
               [i \in 1..Len(parts) |->
                  [pyu |-> parts[i].pyu, columns |-> PartColumns(parts[i].tab)]])

\* ----------------------------------------------------------------- to_csv
\* fileuris is the sequence of the parties the uri dict names.
ToCsv(parts, fileuris) ==
    IF \E k \in 1..Len(fileuris) : ~HasPyu(parts, fileuris[k])
    THEN Raise(parts, "InvalidArgumentError")
    ELSE [Value(parts, "list", fileuris) EXCEPT !.exported = fileuris]

\* ------------------------------------------------------------------ inputs
\* Lists of up to n names of S, no name twice.
DistinctSeqsUpTo(S, n) ==
    {s \in SeqsUpTo(S, n) : \A i, j \in 1..Len(s) : i # j => s[i] # s[j]}

\* A single name, a list of distinct names (the empty list included), and
\* one list that asks for a name twice.
Requests ==
    {[scalar |-> TRUE, names |-> <<n>>] : n \in ColNames}
    \union {[scalar |-> FALSE, names |-> ns] : ns \in DistinctSeqsUpTo(ColNames, MaxReq)}
    \union {[scalar |-> FALSE, names |-> <<"x", "x">>]}

\* A table of the given columns, every cell F(name, row).
MkTab(names, dtype, F(_, _)) ==
    [idx |-> Rows,
     cols |-> [i \in 1..Len(names) |->
                 [name |-> names[i], dtype |-> dtype,
                  data |-> [r \in Rows |-> F(names[i], r)]]]]

MkParts(layout, dtype, F(_, _)) ==
    [i \in 1..Len(layout) |->
       [pyu |-> layout[i].pyu, tab |-> MkTab(layout[i].names, dtype, F)]]

NoKey == [scalar |-> FALSE, names |-> <<>>]

NoValue == [type |-> "none", pyu |-> "", tab |-> NoTab, parts |-> <<>>, scalar |-> 0]

\* Assigned values: a one-column Partition of any party, a VDataFrame over
\* some parties, a scalar.
PartitionValues ==
    {[NoValue EXCEPT !.type = "partition", !.pyu = p,
                     !.tab = MkTab(<<"x">>, "float", LAMBDA n, r : MaxCell)] :
        p \in Parties}

FrameLayouts ==
    { <<[pyu |-> Alice, names |-> <<"x">>]>>,
      <<[pyu |-> Alice, names |-> <<"z">>]>>,
      <<[pyu |-> Bob, names |-> <<"w">>]>>,
      <<[pyu |-> Alice, names |-> <<"x">>], [pyu |-> Bob, names |-> <<"y">>]>>,
      <<[pyu |-> Alice, names |-> <<"w">>], [pyu |-> Carol, names |-> <<"y">>]>>,
      <<[pyu |-> Carol, names |-> <<"w">>]>> }

FrameValues ==
    {[NoValue EXCEPT !.type = "frame",
                     !.parts = MkParts(l, "float", LAMBDA n, r : MaxCell)] :
        l \in FrameLayouts}

ScalarValues == {[NoValue EXCEPT !.type = "scalar", !.scalar = 0]}

IndexSets == {{}, {1}}

\* The other side of a frame subtraction: it has a column the receiver's
\* first partition lacks.
OtherFrame == MkTab(<<"x", "z">>, "float", LAMBDA n, r : 1)

ApplyCalls ==
    {[fn |-> "copy", args |-> NoArgs],
     [fn |-> "round", args |-> NoArgs],
     [fn |-> "isna", args |-> NoArgs],
     [fn |-> "replace", args |-> [NoArgs EXCEPT !.value = 1, !.to = 0]],
     [fn |-> "pow", args |-> [NoArgs EXCEPT !.value = 2]],
     [fn |-> "subtract", args |-> [NoArgs EXCEPT !.value = 1]],
     [fn |-> "subtract", args |-> [NoArgs EXCEPT !.other = OtherFrame]]}

NoDtype == [isdict |-> FALSE, keys |-> <<>>, to |-> ""]

DtypeArgs ==
    {[isdict |-> TRUE, keys |-> ks, to |-> t] :
        ks \in DistinctSeqsUpTo(ColNames, MaxReq), t \in {"object"}}
    \union {[isdict |-> FALSE, keys |-> <<>>, to |-> t] : t \in {"object", "float"}}

UriDicts == SeqsUpTo(Parties, 2)

\* ------------------------------------------------------------------- state
VARIABLES
    partitions,   \* the VDataFrame's Party -> Partition mapping, in dict order
    aligned,      \* the VDataFrame's aligned flag
    pre,          \* partitions as they were before the last call
    call,         \* the last call: the method and its arguments
    out,          \* what the last call returned, raised and invoked
    steps,        \* calls made so far
    kept          \* the VDataFrame a drop returned and the caller still holds

vars == <<partitions, aligned, pre, call, out, steps, kept>>

NoCall ==
    [op |-> "init", on |-> "self", key |-> NoKey, value |-> NoValue, inplace |-> FALSE,
     index |-> {}, fn |-> "", args |-> NoArgs, numeric_only |-> FALSE,
     dtype |-> NoDtype, fileuris |-> <<>>]

InitCell(name, r) ==
    CASE name = "x" -> IF r = 1 THEN NA ELSE 1
      [] name = "y" -> r % (MaxCell + 1)
      [] OTHER -> MaxCell

InitDtype(name) == IF name = "z" THEN "object" ELSE "float"

InitParts(layout) ==
    [i \in 1..Len(layout) |->
       [pyu |-> layout[i].pyu,
        tab |-> [idx |-> Rows,
                 cols |-> [c \in 1..Len(layout[i].names) |->
                             [name |-> layout[i].names[c],
                              dtype |-> InitDtype(layout[i].names[c]),
                              data |-> [r \in Rows |->
                                          InitCell(layout[i].names[c], r)]]]]]]

\* The column sets of the initial partitions are pairwise disjoint; one
\* VDataFrame is constructed aligned, the other not.
InitLayouts ==
    { [aligned |-> TRUE,
       layout |-> <<[pyu |-> Alice, names |-> <<"x", "y">>],
                    [pyu |-> Bob, names |-> <<"z">>]>>],
      [aligned |-> FALSE,
       layout |-> <<[pyu |-> Alice, names |-> <<"y">>],
                    [pyu |-> Bob, names |-> <<"x">>]>>] }

Init ==
    /\ \E l \in InitLayouts :
          /\ partitions = InitParts(l.layout)
          /\ aligned = l.aligned
    /\ pre = partitions
    /\ call = NoCall
    /\ out = Outcome(partitions)
    /\ steps = 0
    /\ kept = NoFrame

\* One call on the VDataFrame: c is the call, o what it did.  The caller
\* makes it once it is done with the call before.
Do(c, o) ==
    /\ steps < MaxOps
    /\ call = NoCall
    /\ partitions' = o.self
    /\ pre' = partitions
    /\ call' = c
    /\ out' = o
    /\ steps' = steps + 1
    /\ UNCHANGED <<aligned, kept>>

DoGetItem ==
    \E item \in Requests :
        Do([NoCall EXCEPT !.op = "getitem", !.key = item],
           GetItem(partitions, item))

DoSetItem ==
    \E key \in Requests, value \in PartitionValues \union FrameValues \union ScalarValues :
        Do([NoCall EXCEPT !.op = "setitem", !.key = key, !.value = value],
           SetItem(partitions, key, value))

DoDrop ==
    \E columns \in Requests, index \in IndexSets, inplace \in BOOLEAN :
        Do([NoCall EXCEPT !.op = "drop", !.key = columns, !.index = index,
                          !.inplace = inplace],
           Drop(partitions, aligned, columns, index, inplace))

DoFillna ==
    \E inplace \in BOOLEAN :
        Do([NoCall EXCEPT !.op = "fillna", !.inplace = inplace,
                          !.args = [NoArgs EXCEPT !.value = 0]],
           Fillna(partitions, aligned, 0, inplace))

DoAsType ==
    \E dtype \in DtypeArgs :
        Do([NoCall EXCEPT !.op = "astype", !.dtype = dtype],
           AsType(partitions, aligned, dtype))

DoSelectDtypes ==
    \E include \in {"float", "object"} :
        Do([NoCall EXCEPT !.op = "select_dtypes", !.dtype.to = include],
           SelectDtypes(partitions, aligned, include))

\* copy, round, replace, pow, subtract, isna
DoPartApply ==
    \E c \in ApplyCalls :
        Do([NoCall EXCEPT !.op = c.fn, !.fn = c.fn, !.args = c.args],
           PartApply(partitions, aligned, c.fn, c.args))

\* sum, min, max, mean, var, std, sem, skew, kurtosis, mode, quantile, count
DoAggregate ==
    \E fn \in AggFns, numeric_only \in BOOLEAN :
        /\ fn = "quantile" => ~numeric_only
        /\ Do([NoCall EXCEPT !.op = fn, !.fn = fn, !.numeric_only = numeric_only],
              ConcatRevealApply(partitions, fn, numeric_only))

DoColumns == Do([NoCall EXCEPT !.op = "columns"], Columns(partitions))

DoShape == Do([NoCall EXCEPT !.op = "shape"], Shape(partitions))

DoDtypes == Do([NoCall EXCEPT !.op = "dtypes"], Dtypes(partitions))

DoLen == Do([NoCall EXCEPT !.op = "len"], LenOf(partitions))

DoPartitionShape ==
    Do([NoCall EXCEPT !.op = "partition_shape"], PartitionShape(partitions))

DoPartitionColumns ==
    Do([NoCall EXCEPT !.op = "partition_columns"], PartitionColumns(partitions))

DoToCsv ==
    \E fileuris \in UriDicts :
        Do([NoCall EXCEPT !.op = "to_csv", !.fileuris = fileuris],
           ToCsv(partitions, fileuris))

\* The caller is done with the last call: what it returned is dropped.
Settle ==
    /\ call # NoCall
    /\ call' = NoCall
    /\ out' = Outcome(partitions)
    /\ pre' = partitions
    /\ UNCHANGED <<partitions, aligned, steps, kept>>

Next ==
    \/ Settle
    \/ DoGetItem
    \/ DoSetItem
    \/ DoDrop
    \/ DoFillna
    \/ DoAsType
    \/ DoSelectDtypes
    \/ DoPartApply
    \/ DoAggregate
    \/ DoColumns
    \/ DoShape
    \/ DoDtypes
    \/ DoLen
    \/ DoPartitionShape
    \/ DoPartitionColumns
    \/ DoToCsv

Spec == Init /\ [][Next]_vars

\* ----------------------------------------- aggregates over drawn tables
\* A second specification: the VDataFrame is drawn from layouts of the
\* columns x, y, z over two parties, with every assignment of cells to x,
\* and one aggregate is called on it.
Cells == {NA} \union (0..MaxCell)

AggLayouts ==
    { <<[pyu |-> Alice, names |-> <<"x", "y">>], [pyu |-> Bob, names |-> <<"z">>]>>,
      <<[pyu |-> Bob, names |-> <<"z", "x">>], [pyu |-> Alice, names |-> <<"y">>]>>,
      <<[pyu |-> Alice, names |-> <<"x">>], [pyu |-> Bob, names |-> <<>>]>> }

AggParts(layout, xdata, ycell, zdtype) ==
    [i \in 1..Len(layout) |->
       [pyu |-> layout[i].pyu,
        tab |-> [idx |-> Rows,
                 cols |-> [c \in 1..Len(layout[i].names) |->
                    LET n == layout[i].names[c]
                    IN  [name |-> n,
                         dtype |-> IF n = "z" THEN zdtype ELSE "float",
                         data |-> IF n = "x" THEN xdata
                                  ELSE IF n = "y" THEN [r \in Rows |-> ycell]
                                  ELSE [r \in Rows |-> IF r = 1 THEN MaxCell ELSE NA]]]]]]

InitAgg ==
    /\ partitions \in {AggParts(l, xd, yc, zt) :
                         l \in AggLayouts, xd \in [Rows -> Cells],
                         yc \in {NA, 1}, zt \in {"float", "object"}}
    /\ aligned = TRUE
    /\ pre = partitions
    /\ call = NoCall
    /\ out = Outcome(partitions)
    /\ steps = 0
    /\ kept = NoFrame

NextAgg == DoAggregate

SpecAgg == InitAgg /\ [][NextAgg]_vars

\* ------------------------------------------ a drop's result and its source
\* new_parts = self.partitions.copy() copies the dict, not the Partition
\* objects: a partition of the result marked alias is the very object the
\* source holds for that party, and what either does to it both see.
WriteThrough(parts, frameParts) ==
    [i \in 1..Len(parts) |->
       IF \E k \in 1..Len(frameParts) :
             frameParts[k].pyu = parts[i].pyu /\ frameParts[k].alias
       THEN [parts[i] EXCEPT !.tab = PartOf(frameParts, parts[i].pyu)]
       ELSE parts[i]]

ReadThrough(frameParts, parts) ==
    [k \in 1..Len(frameParts) |->
       IF frameParts[k].alias
       THEN [frameParts[k] EXCEPT !.tab = PartOf(parts, frameParts[k].pyu)]
       ELSE frameParts[k]]

\* The in-place mutations a caller makes: column assignment, in-place
\* drop, in-place fillna.
Mutations ==
    {[NoCall EXCEPT !.op = "setitem", !.key = key, !.value = value] :
        key \in Requests, value \in PartitionValues \union ScalarValues}
    \union {[NoCall EXCEPT !.op = "drop", !.key = key, !.index = index,
                           !.inplace = TRUE] :
               key \in Requests, index \in IndexSets}
    \union {[NoCall EXCEPT !.op = "fillna", !.inplace = TRUE,
                           !.args = [NoArgs EXCEPT !.value = 0]]}

InplaceMutation(parts, al, m) ==
    CASE m.op = "setitem" -> SetItem(parts, m.key, m.value)
      [] m.op = "drop" -> Drop(parts, al, m.key, m.index, TRUE)
      [] m.op = "fillna" -> Fillna(parts, al, m.args.value, TRUE)

\* r = v.drop(columns=C) with inplace unset: the caller keeps r.
KeepDrop ==
    \E columns \in Requests :
        LET c == [NoCall EXCEPT !.op = "drop", !.key = columns]
            o == Drop(partitions, aligned, columns, {}, FALSE)
        IN  /\ steps < MaxOps
            /\ kept = NoFrame
            /\ ListedCol(columns) # <<>>
            /\ o.kind = "frame"
            /\ kept' = o.frame
            /\ pre' = partitions
            /\ call' = c
            /\ out' = o
            /\ steps' = steps + 1
            /\ UNCHANGED <<partitions, aligned>>

\* An in-place mutation made through r.
MutateResult ==
    \E m \in Mutations :
        LET o == InplaceMutation(kept.parts, kept.aligned, m)
        IN  /\ steps < MaxOps
            /\ kept # NoFrame
            /\ kept' = [kept EXCEPT !.parts = o.self]
            /\ partitions' = WriteThrough(partitions, o.self)
            /\ pre' = partitions
            /\ call' = [m EXCEPT !.on = "result"]
            /\ out' = [o EXCEPT !.self = partitions']
            /\ steps' = steps + 1
            /\ UNCHANGED aligned

\* An in-place mutation made through v while the caller holds r.
MutateSource ==
    \E m \in Mutations :
        LET o == InplaceMutation(partitions, aligned, m)
        IN  /\ steps < MaxOps
            /\ kept # NoFrame
            /\ partitions' = o.self
            /\ kept' = [kept EXCEPT !.parts = ReadThrough(@, o.self)]
            /\ pre' = partitions
            /\ call' = m
            /\ out' = o
            /\ steps' = steps + 1
            /\ UNCHANGED aligned

NextAlias ==
    \/ KeepDrop
    \/ MutateResult
    \/ MutateSource

SpecAlias == Init /\ [][NextAlias]_vars

\* ------------------------------------------------------------ properties
Declares(parts, i, n) == n \in DtypeKeys(parts[i].tab)

Declared(parts, n) == \E i \in 1..Len(parts) : Declares(parts, i, n)

\* No two partitions expose the same column name.
Disjoint(parts) ==
    \A i, j \in 1..Len(parts) :
        i # j => DtypeKeys(parts[i].tab) \intersect DtypeKeys(parts[j].tab) = {}

\* The owner of a declared name: the first partition, in iteration order,
\* that declares it.
OwnerPos(parts, n) ==
    CHOOSE i \in 1..Len(parts) :
        /\ Declares(parts, i, n)
        /\ \A j \in 1..(i - 1) : ~Declares(parts, j, n)

Owns(parts, i, n) == Declared(parts, n) /\ OwnerPos(parts, n) = i

\* The names of a request that partition i owns, in request order.
OwnedOf(parts, i, listed) == SelectSeq(listed, LAMBDA n : Owns(parts, i, n))

Resolvable(parts, col) ==
    /\ ListedCol(col) # <<>>
    /\ \A n \in Range(ListedCol(col)) : Declared(parts, n)

\* What _col_index owes for one request on disjoint partitions.
ColIndexRight(parts, col) ==
    LET listed == ListedCol(col)
        ci == ColIndex(parts, col)
    IN  IF \A n \in Range(listed) : Declared(parts, n)
        THEN /\ ci.err = ""
             /\ \A e, f \in 1..Len(ci.idx) : e # f => ci.idx[e].pyu # ci.idx[f].pyu
             /\ \A e \in 1..Len(ci.idx) :
                   /\ HasPyu(parts, ci.idx[e].pyu)
                   /\ ci.idx[e].cols # <<>>
                   /\ ci.idx[e].cols =
                        SelectSeq(listed,
                                  LAMBDA n : n \in DtypeKeys(PartOf(parts, ci.idx[e].pyu)))
             /\ \A n \in Range(listed) :
                   \E e \in 1..Len(ci.idx) : n \in Range(ci.idx[e].cols)
        ELSE /\ ci.err = "NotFoundError"
             /\ ci.missing \in Range(listed)
             /\ ~Declared(parts, ci.missing)
             /\ ci.idx = <<>>

\* The call resolves its key through _col_index.
UsesColIndex(c) ==
    \/ c.op = "getitem"
    \/ c.op = "drop"
    \/ c.op = "setitem" /\ c.value.type # "partition"

\* C1: on partitions with pairwise disjoint column sets, _col_index maps
\* every non-empty request either to a Party -> list mapping in which each
\* requested name stands under exactly the party that declares it, in
\* request order within a party, or, when some requested name is declared
\* by no partition, fails with NotFoundError naming such a name; no name is
\* ever attributed to a party that does not declare it.  Stated of every
\* call that resolves its key through _col_index.
C1_ColIndexOwner ==
    (UsesColIndex(call) /\ Disjoint(pre) /\ ListedCol(call.key) # <<>>) =>
        ColIndexRight(pre, call.key)

\* A call resolved a request whose names two different parties declare.
C1_Witness ==
    /\ call.op = "getitem"
    /\ Disjoint(pre)
    /\ Len(ListedCol(call.key)) = 2
    /\ Len(ColIndex(pre, call.key).idx) = 2
    /\ out.kind = "frame"

\* C2: __getitem__ of a resolvable request returns a new VDataFrame whose
\* parties are exactly the owners of the requested names and in which each
\* party's partition holds exactly the requested names that party owns;
\* the receiver's partitions are unchanged.  (The owner of a name is the
\* first partition in iteration order that declares it.)
C2_GetItemOnlyRequested ==
    (call.op = "getitem" /\ Resolvable(pre, call.key)) =>
        /\ out.kind = "frame"
        /\ partitions = pre
        /\ {out.frame.parts[k].pyu : k \in 1..Len(out.frame.parts)}
             = {pre[i].pyu : i \in {i \in 1..Len(pre) :
                                      \E n \in Range(ListedCol(call.key)) : Owns(pre, i, n)}}
        /\ \A k, l \in 1..Len(out.frame.parts) :
              k # l => out.frame.parts[k].pyu # out.frame.parts[l].pyu
        /\ \A k \in 1..Len(out.frame.parts) :
              LET i == PosOf(pre, out.frame.parts[k].pyu)
              IN  /\ ~out.frame.parts[k].alias
                  /\ PartColumns(out.frame.parts[k].tab)
                       = OwnedOf(pre, i, ListedCol(call.key))
                  /\ \A c \in 1..Len(out.frame.parts[k].tab.cols) :
                        out.frame.parts[k].tab.cols[c]
                          = ColNamed(pre[i].tab, out.frame.parts[k].tab.cols[c].name)

\* One party's column was selected from a VDataFrame of two non-empty
\* partitions: the other party is absent from the result.
C2_Witness ==
    /\ call.op = "getitem"
    /\ out.kind = "frame"
    /\ Len(out.frame.parts) = 1
    /\ Len(pre) = 2
    /\ \A i \in 1..Len(pre) : Len(pre[i].tab.cols) > 0
    /\ Len(out.frame.parts[1].tab.cols) < Len(PartOf(pre, out.frame.parts[1].pyu).cols)

\* C3 (as claimed): from disjoint partitions, after any sequence of calls no
\* two partitions of the VDataFrame, or of a VDataFrame a call returned,
\* expose the same column name.
C3_DisjointAlways ==
    /\ Disjoint(partitions)
    /\ out.kind = "frame" => Disjoint(out.frame.parts)

\* C4: __setitem__ of a column name no party declares, with a Partition
\* value of a party P of the VDataFrame, inserts the column into P's table
\* only: the total column count grows by exactly one and every other
\* party's table is unchanged.
C4_SetItemNewColumn ==
    (/\ call.op = "setitem"
     /\ call.value.type = "partition"
     /\ Len(call.key.names) = 1
     /\ ~Declared(pre, call.key.names[1])
     /\ HasPyu(pre, call.value.pyu)) =>
        /\ out.kind = "none"
        /\ Pyus(partitions) = Pyus(pre)
        /\ SumSeq([i \in 1..Len(partitions) |-> Len(partitions[i].tab.cols)])
             = SumSeq([i \in 1..Len(pre) |-> Len(pre[i].tab.cols)]) + 1
        /\ \A i \in 1..Len(pre) :
              IF pre[i].pyu = call.value.pyu
              THEN /\ PartColumns(partitions[i].tab)
                        = Append(PartColumns(pre[i].tab), call.key.names[1])
                   /\ \A c \in 1..Len(pre[i].tab.cols) :
                         partitions[i].tab.cols[c] = pre[i].tab.cols[c]
                   /\ \A r \in partitions[i].tab.idx \intersect call.value.tab.idx :
                         partitions[i].tab.cols[Len(partitions[i].tab.cols)].data[r]
                           = call.value.tab.cols[1].data[r]
              ELSE partitions[i] = pre[i]

\* A new column went into the second partition of two.
C4_Witness ==
    /\ call.op = "setitem"
    /\ call.value.type = "partition"
    /\ Len(call.key.names) = 1
    /\ ~Declared(pre, call.key.names[1])
    /\ Len(pre) = 2
    /\ call.value.pyu = pre[2].pyu
    /\ Declares(partitions, 2, call.key.names[1])

\* C5: drop(columns=C, inplace=True) resolves every name of C before it
\* changes anything: if all resolve, each owning party's table loses
\* exactly the names of C it owns and every other table is unchanged; if
\* some name is declared by no party the call fails with NotFoundError and
\* no table is changed.
C5_DropInplaceFrame ==
    (/\ call.op = "drop"
     /\ call.inplace
     /\ ListedCol(call.key) # <<>>
     /\ call.index = {}) =>
        IF Resolvable(pre, call.key)
        THEN /\ out.kind = "none"
             /\ Pyus(partitions) = Pyus(pre)
             /\ \A i \in 1..Len(pre) :
                   partitions[i].tab =
                     [pre[i].tab EXCEPT !.cols =
                        SelectSeq(pre[i].tab.cols,
                                  LAMBDA c : ~(/\ c.name \in Range(ListedCol(call.key))
                                               /\ Owns(pre, i, c.name)))]
        ELSE /\ out.kind = "raise"
             /\ out.err = "NotFoundError"
             /\ partitions = pre

\* An in-place drop removed a column of one party and left a non-empty
\* table of another party alone.
C5_Witness ==
    /\ call.op = "drop"
    /\ call.inplace
    /\ call.index = {}
    /\ out.kind = "none"
    /\ \E i, j \in 1..Len(pre) :
          /\ Len(partitions[i].tab.cols) < Len(pre[i].tab.cols)
          /\ partitions[j] = pre[j]
          /\ Len(pre[j].tab.cols) > 0

\* A request with an undeclared name after a declared one failed and
\* changed nothing.
C5_WitnessNotFound ==
    /\ call.op = "drop"
    /\ call.inplace
    /\ Len(ListedCol(call.key)) = 2
    /\ Declared(pre, ListedCol(call.key)[1])
    /\ ~Declared(pre, ListedCol(call.key)[2])
    /\ out.err = "NotFoundError"

\* The unpartitioned table: every partition's columns side by side, in
\* partition order.
Joined(parts) ==
    [idx |-> parts[1].tab.idx,
     cols |-> Flatten([i \in 1..Len(parts) |-> parts[i].tab.cols])]

EqualRows(parts) == \A i, j \in 1..Len(parts) : parts[i].tab.idx = parts[j].tab.idx

EntryNames(series) == [k \in 1..Len(series) |-> series[k].name]

\* The columns a reduction keeps, by name.
KeptNames(tab, numeric_only) ==
    PartColumns([tab EXCEPT !.cols =
                   SelectSeq(@, LAMBDA c : ~numeric_only \/ c.dtype # "object")])

\* C6 (as claimed): an aggregate of a VDataFrame with disjoint column sets
\* and equal row counts has exactly one entry per column of the VDataFrame,
\* in partition order and then the partition's own order, each equal to
\* the reduction of that column in the unpartitioned table.
C6_OneEntryPerColumn ==
    (/\ call.op \in AggFns
     /\ Disjoint(pre) /\ EqualRows(pre)
     /\ out.kind = "series") =>
        /\ EntryNames(out.series) = Flatten([i \in 1..Len(pre) |-> PartColumns(pre[i].tab)])
        /\ \A k \in 1..Len(out.series) :
              out.series[k].value = Reduce(call.fn, ColNamed(Joined(pre), out.series[k].name))

\* C6 (amended): the aggregate has exactly one entry per column the
\* reduction keeps (every column, but with numeric_only set only those not
\* of object dtype), in partition order and then the partition's own
\* order, each equal to the reduction of that column in the unpartitioned
\* table; it fails exactly when the reduction of the unpartitioned table
\* fails.
C6_AggregateMatchesJoined ==
    (/\ call.op \in AggFns
     /\ Disjoint(pre) /\ EqualRows(pre)) =>
        LET whole == PartReduce(Joined(pre), call.fn, call.numeric_only)
        IN  /\ out.kind \in {"series", "raise"}
            /\ out.kind = "series" <=> whole.err = ""
            /\ out.kind = "series" =>
                  /\ out.series = whole.res
                  /\ EntryNames(out.series)
                       = Flatten([i \in 1..Len(pre) |-> KeptNames(pre[i].tab, call.numeric_only)])
                  /\ \A k \in 1..Len(out.series) :
                        out.series[k].value
                          = Reduce(call.fn, ColNamed(Joined(pre), out.series[k].name))

\* A sum over columns split across two parties added up two present cells
\* of one column and skipped a missing cell of another.
C6_Witness ==
    /\ call.op = "sum"
    /\ out.kind = "series"
    /\ Len(out.series) = 3
    /\ Len(pre) = 2 /\ Len(pre[1].tab.cols) > 0 /\ Len(pre[2].tab.cols) > 0
    /\ \E k \in 1..3 : out.series[k].name = "x" /\ out.series[k].value = 2 * MaxCell
    /\ \E k \in 1..3 : out.series[k].name = "z" /\ out.series[k].value = MaxCell

\* C7 (as claimed): a call that addresses a party outside the VDataFrame
\* fails with the invalid-argument error and has no effect: to_csv before
\* any export, __setitem__ of a VDataFrame value before any table changes.
C7_UnknownPartyInvalidArgument ==
    /\ (/\ call.op = "to_csv"
        /\ \E k \in 1..Len(call.fileuris) : ~HasPyu(pre, call.fileuris[k])) =>
          /\ out.kind = "raise" /\ out.err = "InvalidArgumentError"
          /\ out.exported = <<>>
          /\ partitions = pre
    /\ (/\ call.op = "setitem"
        /\ call.value.type = "frame"
        /\ \E k \in 1..Len(call.value.parts) : ~HasPyu(pre, call.value.parts[k].pyu)) =>
          /\ out.kind = "raise" /\ out.err = "InvalidArgumentError"
          /\ partitions = pre

\* C8 (as claimed): a drop or fillna with inplace set changes the tables
\* in place and returns nothing; with inplace unset it returns a new
\* VDataFrame and leaves the receiver's tables unchanged.
C8_InplaceReturnsNothing ==
    (call.op \in {"drop", "fillna"} /\ out.kind # "raise") =>
        IF call.inplace
        THEN out.kind = "none"
        ELSE out.kind = "frame" /\ partitions = pre

\* The calls dispatched through __part_apply.
ViaPartApply ==
    \/ call.op \in {"copy", "round", "replace", "pow", "subtract", "isna"}
    \/ call.op = "fillna" /\ ~call.inplace
    \/ call.op = "drop" /\ ~call.inplace /\ ListedCol(call.key) = <<>>

\* C9: a call dispatched through __part_apply that returns has invoked
\* the operation on every partition, in order, with the same arguments,
\* and returns a VDataFrame of the same parties and the same aligned flag
\* in which every party's table has exactly the columns its partition had
\* before, whatever columns the operation's raw result had; the receiver
\* is unchanged.
C9_PartApplyKeepsOwnership ==
    ViaPartApply =>
        /\ out.kind \in {"frame", "raise"}
        /\ partitions = pre
        /\ out.kind = "frame" =>
              /\ Len(out.invoked) = Len(pre)
              /\ \A i \in 1..Len(pre) :
                    /\ out.invoked[i].pyu = pre[i].pyu
                    /\ out.invoked[i].fn = call.op
                    /\ out.invoked[i].args = out.invoked[1].args
              /\ Pyus(out.frame.parts) = Pyus(pre)
              /\ out.frame.aligned = aligned
              /\ \A i \in 1..Len(pre) :
                    /\ PartColumns(out.frame.parts[i].tab) = PartColumns(pre[i].tab)
                    /\ ~out.frame.parts[i].alias

\* A frame subtraction whose raw result had a column the first partition
\* never held, on a VDataFrame that is not aligned.
C9_Witness ==
    /\ call.op = "subtract"
    /\ call.args.other # NoTab
    /\ out.kind = "frame"
    /\ ~aligned
    /\ Len(pre) = 2
    /\ \E n \in DtypeKeys(call.args.other) : ~Declares(pre, 1, n)

\* C10 (as claimed): reveal is invoked only during a column-wise statistic.
C10_RevealOnlyInAggregates ==
    out.revealed # <<>> => call.op \in AggFns

\* C10 (amended): reveal is invoked only during a column-wise statistic or
\* partition_shape, once per call; no other call declassifies anything.
C10_RevealOnlyInAggregatesAndPartitionShape ==
    /\ out.revealed # <<>> => call.op \in AggFns \union {"partition_shape"}
    /\ Len(out.revealed) <= 1
    /\ (call.op \in AggFns \union {"partition_shape"} /\ out.kind # "raise")
          => Len(out.revealed) = 1

\* partition_shape returned the partitions' shapes through reveal.
C10_Witness ==
    /\ call.op = "partition_shape"
    /\ Len(out.revealed) = 1
    /\ Len(out.revealed[1]) = 2

\* ------------------------------------------------------------------- C11
\* The partition's own reduction fails on this table.
ReductionFails(tab, c) == PartReduce(tab, c.fn, c.numeric_only).err # ""

\* The first partition, in iteration order, whose reduction fails.
FirstFailing(parts, c) ==
    CHOOSE k \in 1..Len(parts) :
        /\ ReductionFails(parts[k].tab, c)
        /\ \A j \in 1..(k - 1) : ~ReductionFails(parts[j].tab, c)

\* C11: an aggregate call in which every partition's reduction succeeds
\* invokes the reduction on every partition, in iteration order, and invokes
\* reveal exactly once, on the batch of all partial results in partition
\* iteration order; an aggregate call in which some partition's reduction
\* fails raises that partition's error as it is, invokes reveal not at all
\* and returns no merged result.
C11_RevealOnceAfterAll ==
    call.op \in AggFns =>
        IF \E k \in 1..Len(pre) : ReductionFails(pre[k].tab, call)
        THEN /\ out.kind = "raise"
             /\ out.err = PartReduce(pre[FirstFailing(pre, call)].tab,
                                     call.fn, call.numeric_only).err
             /\ out.revealed = <<>>
             /\ out.series = <<>>
             /\ out.self = pre
        ELSE /\ out.kind = "series"
             /\ [i \in 1..Len(out.invoked) |-> out.invoked[i].pyu] = Pyus(pre)
             /\ \A i \in 1..Len(out.invoked) : out.invoked[i].fn = call.fn
             /\ Len(out.revealed) = 1
             /\ out.revealed[1] =
                   [i \in 1..Len(pre) |->
                      PartReduce(pre[i].tab, call.fn, call.numeric_only).res]
             /\ out.self = pre

\* An aggregate failed on the second partition after the first partition's
\* reduction had run.
C11_Witness ==
    /\ call.op \in AggFns
    /\ out.kind = "raise"
    /\ Len(pre) = 2
    /\ Len(out.invoked) = 2
    /\ ~ReductionFails(pre[1].tab, call)
    /\ ReductionFails(pre[2].tab, call)

\* An aggregate over two partitions returned its merged result.
C11_WitnessMerged ==
    /\ call.op \in AggFns
    /\ out.kind = "series"
    /\ Len(pre) = 2
    /\ Len(out.revealed) = 1
    /\ Len(out.revealed[1]) = 2

\* ------------------------------------------------------------------- C12
\* Table after holds the columns of the value's table val on top of what
\* table before held: val's columns stand in it with val's dtype and val's
\* cells on the rows both have, and every other column is as it was.
InsertedInto(before, val, after) ==
    /\ after.idx = before.idx
    /\ DtypeKeys(after) = DtypeKeys(before) \union DtypeKeys(val)
    /\ Len(after.cols) = Cardinality(DtypeKeys(after))
    /\ \A n \in DtypeKeys(val) :
          /\ ColNamed(after, n).dtype = ColNamed(val, n).dtype
          /\ \A r \in after.idx \intersect val.idx :
                ColNamed(after, n).data[r] = ColNamed(val, n).data[r]
    /\ \A n \in DtypeKeys(before) \ DtypeKeys(val) :
          ColNamed(after, n) = ColNamed(before, n)

\* The call assigns a VDataFrame all of whose parties the target has, under
\* a key of which some name no partition of the target declares.
FallbackCase(parts, c) ==
    /\ c.op = "setitem"
    /\ c.value.type = "frame"
    /\ \A j \in 1..Len(c.value.parts) : HasPyu(parts, c.value.parts[j].pyu)
    /\ \E n \in Range(ListedCol(c.key)) : ~Declared(parts, n)

\* C12: __setitem__ with a VDataFrame value whose parties are all parties
\* of the target and with a key of which some name is declared by no
\* partition of the target does not fail: every party of the value has the
\* columns of its partition in the value inserted into its table in the
\* target, and the table of every party the value lacks is unchanged.
C12_SetItemFallbackInserts ==
    FallbackCase(pre, call) =>
        /\ out.kind = "none"
        /\ Pyus(partitions) = Pyus(pre)
        /\ \A i \in 1..Len(pre) :
              IF HasPyu(call.value.parts, pre[i].pyu)
              THEN InsertedInto(pre[i].tab,
                                PartOf(call.value.parts, pre[i].pyu),
                                partitions[i].tab)
              ELSE partitions[i] = pre[i]

\* A two-party value went in under a key with an undeclared name: both
\* tables changed.
C12_Witness ==
    /\ FallbackCase(pre, call)
    /\ Len(call.value.parts) = 2
    /\ Len(pre) = 2
    /\ partitions[1] # pre[1]
    /\ partitions[2] # pre[2]

\* A one-party value went in under a key with an undeclared name: the
\* other party's table is as it was.
C12_WitnessAbsentParty ==
    /\ FallbackCase(pre, call)
    /\ Len(call.value.parts) = 1
    /\ Len(pre) = 2
    /\ partitions # pre
    /\ \E i \in 1..2 : ~HasPyu(call.value.parts, pre[i].pyu) /\ partitions[i] = pre[i]

\* ------------------------------------------------------------------- C13
\* The tables of a VDataFrame's partitions, party by party.
Tables(parts) == [i \in 1..Len(parts) |-> [pyu |-> parts[i].pyu, tab |-> parts[i].tab]]

\* C13 (as claimed): after r = v.drop(columns=C) with inplace unset, an
\* in-place mutation made through r leaves every partition table of v
\* unchanged, and an in-place mutation made through v leaves every
\* partition table of r unchanged.
C13_DropResultIndependent ==
    [][/\ (kept # NoFrame /\ call'.on = "result") => Tables(partitions') = Tables(partitions)
       /\ (kept # NoFrame /\ call'.on = "self") => Tables(kept'.parts) = Tables(kept.parts)]_vars

\* What holds of the code: the tables of the parties that owned a dropped
\* name are the result's own, and the mutations of one VDataFrame reach
\* the other only through the partitions the drop did not touch.
C13_DroppedPartiesIndependent ==
    [][kept # NoFrame =>
         \A k \in 1..Len(kept.parts) :
            ~kept.parts[k].alias =>
               /\ call'.on = "result" =>
                     PartOf(partitions', kept.parts[k].pyu)
                        = PartOf(partitions, kept.parts[k].pyu)
               /\ call'.on = "self" => kept'.parts[k] = kept.parts[k]]_vars

\* The caller holds a drop's result that shares a partition with its
\* source, and a mutation was made through the result.
C13_Witness ==
    /\ kept # NoFrame
    /\ \E k \in 1..Len(kept.parts) : kept.parts[k].alias
    /\ \E k \in 1..Len(kept.parts) : ~kept.parts[k].alias
    /\ call.on = "result"
    /\ out.kind # "raise"

====
